---- MODULE Spec2Model ----
(***************************************************************************)
(* State-machine model of pyvista.plotting.renderer.Renderer: the actor   *)
(* registry (_actors), the aggregate bounds, the bounding-box and          *)
(* cube-axes decorations, the camera and the camera_set flag.              *)
(*                                                                         *)
(* Every public method is one action.  A method is an operator from a      *)
(* record of the renderer's fields to the record after the call, written   *)
(* statement by statement from the source; calls between methods are       *)
(* calls between operators (RECURSIVE where the source recurses).          *)
(* The record also carries what the call did to its collaborators          *)
(* (trace), what it returned (ret) and what it raised (err).               *)
(***************************************************************************)
EXTENDS Integers, Sequences, FiniteSets, TLC

VARIABLES
    actors,              \* self._actors: insertion-ordered dict, a sequence of [name, actor]
    attached,            \* the props the vtkRenderer holds (AddActor/AddViewProp)
    camera_set,          \* self.camera_set
    bounding_box_actor,  \* self.bounding_box_actor (NoneActor for None)
    box_object,          \* self._box_object (NoObject when the attribute is absent)
    box_color,           \* colour of bounding_box_actor's property
    cube_axes_actor,     \* self.cube_axes_actor (NoneActor when the attribute is absent)
    cube_state,          \* bounds and 2D mode of each live vtkCubeAxesActor, by id
    scale,               \* self.scale
    camera,              \* the active vtkCamera: position, focal point, view-up, model matrix
    parent,              \* self.parent: the plotter, or NoParent once released
    edl_pass,            \* TRUE when the attribute edl_pass exists
    released,            \* TRUE when self._actors is None
    scalar_bars,         \* the plotter's colorbar tables: _scalar_bar_mappers, _scalar_bar_ranges,
                         \* _scalar_bar_actors, _scalar_bar_slot_lookup, _scalar_bar_slots
    op,                  \* the call the last step made, with its arguments
    ret,                 \* what it returned
    err,                 \* what it raised ("" when it returned)
    trace,               \* the calls it made on the graphics subsystem and the plotter,
                         \* and the pops of the registry, in order
    written,             \* the last triple handed to the camera_position setter
    pre                  \* the renderer's fields before the call

vars == <<actors, attached, camera_set, bounding_box_actor, box_object, box_color,
          cube_axes_actor, cube_state, scale, camera, parent, edl_pass, released,
          scalar_bars, op, ret, err, trace, written, pre>>

-----------------------------------------------------------------------------
(* Bounds of the model *)

\* the most entries the registry holds when add_actor is called by the user
MaxActors == 2
\* the most bounding-box actors the registry holds when a call that adds one starts
MaxBoxes == 2
\* the most axes markers the registry holds when add_axes_at_origin is called
MaxMarkers == 1
\* the most mappers the colorbars track together when a mapper is given a colorbar
MaxTracked == 3
\* the most borders the caller has added when add_border is called
MaxBorders == 1

-----------------------------------------------------------------------------
(* Values *)

\* np.inf in the accumulator of Renderer.bounds: larger than every coordinate
Inf == 1000000

\* Python None where an actor is expected; also "attribute absent"
NoneActor == [kind |-> "none", id |-> 0, bounds |-> <<>>]
\* the attribute _box_object is absent
NoObject == [id |-> 0, bounds |-> <<>>]
\* name=None
NoName == ""
\* self.parent = None; ThePlotter is the plotter handed to __init__
NoParent == "None"
ThePlotter == "plotter"

\* The actors the caller owns.  bounds is what GetBounds() returns; <<>> is None.
ActorA == [kind |-> "actor", id |-> 1, bounds |-> <<0, 1, 0, 1, 0, 1>>]
ActorB == [kind |-> "actor", id |-> 2, bounds |-> <<1, 2, 1, 2, 1, 2>>]
UserActors == {ActorA, ActorB}

\* the vtkActor2D that add_border attaches in __init__
BorderActor == [kind |-> "border", id |-> 0, bounds |-> <<>>]

\* MAX_N_COLOR_BARS of the theme: the display slots a renderer has for colorbars
MAX_N_COLOR_BARS == 10

\* The plotter's colorbar tables when no colorbar exists.  mappers is the dict
\* _scalar_bar_mappers in insertion order, title by title the list of mappers
\* sharing the colorbar; ranges, actors and slot_lookup are the dicts
\* _scalar_bar_ranges, _scalar_bar_actors and _scalar_bar_slot_lookup as sets of
\* entries; slots is the set _scalar_bar_slots of free display slots
NoScalarBars ==
    [mappers |-> <<>>, ranges |-> {}, actors |-> {}, slot_lookup |-> {},
     slots |-> 0..(MAX_N_COLOR_BARS - 1)]

\* actor.GetMapper(): a mapper is named by the id of the vtkActor that owns
\* it; 0 is None, what an actor without a mapper of its own answers
GetMapper(actor) == IF actor.kind \in {"actor", "box"} THEN actor.id ELSE 0

\* reset_camera is three-valued: True, False, None
ResetFlags == {"True", "False", "None"}

-----------------------------------------------------------------------------
(* Floats: a coordinate is a fraction <<n, d>> in lowest terms with d > 0. *)
(* <<0, 0>> is NaN, <<1, 0>> and <<-1, 0>> are +inf and -inf.              *)

Abs(x) == IF x < 0 THEN -x ELSE x
Sign(x) == IF x < 0 THEN -1 ELSE IF x > 0 THEN 1 ELSE 0

RECURSIVE GCD(_, _)
GCD(a, b) == IF b = 0 THEN a ELSE GCD(b, a % b)

RNorm(n, d) ==
    IF d = 0 THEN <<Sign(n), 0>>
    ELSE LET g == GCD(Abs(n), Abs(d))
         IN  <<(Sign(d) * n) \div g, Abs(d) \div g>>

R(n) == <<n, 1>>
NaN == <<0, 0>>
IsNaN(x) == x = NaN
IsInf(x) == x[2] = 0 /\ x[1] # 0

RAdd(x, y) ==
    IF IsNaN(x) \/ IsNaN(y) THEN NaN
    ELSE IF IsInf(x) /\ IsInf(y) THEN (IF x = y THEN x ELSE NaN)
    ELSE IF IsInf(x) THEN x
    ELSE IF IsInf(y) THEN y
    ELSE RNorm(x[1] * y[2] + y[1] * x[2], x[2] * y[2])

RMul(x, y) ==
    IF IsNaN(x) \/ IsNaN(y) THEN NaN
    ELSE IF IsInf(x) \/ IsInf(y) THEN RNorm(Sign(x[1]) * Sign(y[1]), 0)
    ELSE RNorm(x[1] * y[1], x[2] * y[2])

RDiv(x, y) ==
    IF IsNaN(x) \/ IsNaN(y) THEN NaN
    ELSE IF IsInf(y) THEN (IF IsInf(x) THEN NaN ELSE R(0))
    ELSE IF IsInf(x) THEN RNorm(Sign(x[1]) * (IF y[1] < 0 THEN -1 ELSE 1), 0)
    ELSE RNorm(x[1] * y[2], x[2] * y[1])

RNeg(x) == <<-x[1], x[2]>>

VAdd(u, v) == <<RAdd(u[1], v[1]), RAdd(u[2], v[2]), RAdd(u[3], v[3])>>
VSub(u, v) == VAdd(u, <<RNeg(v[1]), RNeg(v[2]), RNeg(v[3])>>)
VInt(v) == <<R(v[1]), R(v[2]), R(v[3])>>

-----------------------------------------------------------------------------
(* The registry as an insertion-ordered dict *)

Keys(d) == [i \in 1..Len(d) |-> d[i].name]
Values(d) == {d[i].actor : i \in 1..Len(d)}
HasKey(d, k) == \E i \in 1..Len(d) : d[i].name = k
Lookup(d, k) == d[CHOOSE i \in 1..Len(d) : d[i].name = k].actor

\* d[k] = v: an existing key keeps its place
DictSet(d, k, v) ==
    IF HasKey(d, k)
    THEN [i \in 1..Len(d) |-> IF d[i].name = k THEN [name |-> k, actor |-> v] ELSE d[i]]
    ELSE Append(d, [name |-> k, actor |-> v])

\* the slip of a pop that leaves the key in the dict
DictPop_KeepsKey(d, k) == d

\* d.pop(k, None)
DictPop(d, k) == SelectSeq(d, LAMBDA e : e.name # k)

\* str.startswith
StartsWith(k, p) == Len(k) >= Len(p) /\ SubSeq(k, 1, Len(p)) = p

\* the lower-case letter of each upper-case letter
LowerCase ==
    [A |-> "a", B |-> "b", C |-> "c", D |-> "d", E |-> "e", F |-> "f", G |-> "g",
     H |-> "h", I |-> "i", J |-> "j", K |-> "k", L |-> "l", M |-> "m", N |-> "n",
     O |-> "o", P |-> "p", Q |-> "q", R |-> "r", S |-> "s", T |-> "t", U |-> "u",
     V |-> "v", W |-> "w", X |-> "x", Y |-> "y", Z |-> "z"]

\* str.lower()
RECURSIVE Lower(_)
Lower(text) ==
    IF Len(text) = 0 THEN text
    ELSE (IF SubSeq(text, 1, 1) \in DOMAIN LowerCase THEN LowerCase[SubSeq(text, 1, 1)]
          ELSE SubSeq(text, 1, 1)) \o Lower(SubSeq(text, 2, Len(text)))

\* str(hex(id(actor)))
HexId(actor) == "0x" \o ToString(actor.id)

-----------------------------------------------------------------------------
(* The record a method works on *)

Event(e, a) == [e |-> e, a |-> a]
Emit(s, e, a) == [s EXCEPT !.trace = Append(@, Event(e, a))]
Return(s, v) == [s EXCEPT !.ret = v]
Raise(s, e) == [s EXCEPT !.ret = "", !.err = e]

\* id() of a newly constructed object that no registry key is compared with:
\* any id no live object has will do, and the least one that neither a live
\* object nor an object of this call has had is taken
FreshId(s) ==
    CHOOSE n \in 3..(3 + Cardinality(s.used)) :
        n \notin s.used /\ \A m \in 3..(n - 1) : m \in s.used

\* cube_axes_actor.SetBounds(b) and SetUse2DMode(use2d) on the cube-axes actor
SetCube(s, actor, b, use2d) ==
    [s EXCEPT !.cube_state =
        [i \in DOMAIN @ \cup {actor.id} |->
            IF i = actor.id THEN [bounds |-> b, use2d |-> use2d] ELSE @[i]]]

-----------------------------------------------------------------------------
(* scale_point *)

\* the slip of inverting a temporary: the matrix used is the one copied
Invert_LeavesMatrix(m) == m

\* vtkMatrix4x4.Invert on the diagonal matrix m: a singular matrix is left as it is
Invert(m) ==
    IF m[1] = R(0) \/ m[2] = R(0) \/ m[3] = R(0) THEN m
    ELSE <<RDiv(R(1), m[1]), RDiv(R(1), m[2]), RDiv(R(1), m[3])>>

\* mtx.MultiplyDoublePoint((x, y, z, 0.0)) for the diagonal matrix m.  In each
\* row the entry of the diagonal meets its coordinate and the zeros off the
\* diagonal meet the other two (0 * inf is NaN)
MultiplyDoublePoint(m, p) ==
    LET row(d, x, y, z) == RAdd(RAdd(RMul(d, x), RMul(R(0), y)), RMul(R(0), z))
    IN  <<row(m[1], p[1], p[2], p[3]), row(m[2], p[2], p[1], p[3]),
          row(m[3], p[3], p[1], p[2])>>

scale_point(cam, point, invert) ==
    IF invert THEN MultiplyDoublePoint(Invert(cam.mtx), point)
    ELSE MultiplyDoublePoint(cam.mtx, point)

-----------------------------------------------------------------------------
(* Renderer.bounds and Renderer.center *)

\* _update_bounds: fold one actor's box into the accumulator, axis by axis
UpdateBounds(the_bounds, b) ==
    [i \in 1..6 |->
        IF i % 2 = 1
        THEN (IF b[i] < the_bounds[i] THEN b[i] ELSE the_bounds[i])
        ELSE (IF b[i] > the_bounds[i] THEN b[i] ELSE the_bounds[i])]

\* the slip of comparing nothing against bounding_box_actor: the box of the
\* decoration is folded in like any other actor's
Contributes_CountsBox(s, actor) ==
    /\ actor.kind # "cube"
    /\ actor.bounds # <<>>

\* which registered actors the loop of Renderer.bounds folds in
Contributes(s, actor) ==
    /\ actor.kind # "cube"
    /\ actor.bounds # <<>>
    /\ actor.id # s.bounding_box_actor.id

RECURSIVE FoldBounds(_, _, _)
FoldBounds(s, i, the_bounds) ==
    IF i > Len(s.actors) THEN the_bounds
    ELSE FoldBounds(s, i + 1,
            IF Contributes(s, s.actors[i].actor)
            THEN UpdateBounds(the_bounds, s.actors[i].actor.bounds)
            ELSE the_bounds)

\* the sentinel replacement after the loop
ReplaceInf(the_bounds) ==
    IF \E i \in 1..6 : the_bounds[i] # 0
    THEN [i \in 1..6 |-> IF the_bounds[i] = Inf THEN -1
                         ELSE IF the_bounds[i] = -Inf THEN 1
                         ELSE the_bounds[i]]
    ELSE the_bounds

bounds(s) == ReplaceInf(FoldBounds(s, 1, <<Inf, -Inf, Inf, -Inf, Inf, -Inf>>))

center(s) ==
    LET b == bounds(s)
    IN  <<RNorm(b[2] + b[1], 2), RNorm(b[4] + b[3], 2), RNorm(b[6] + b[5], 2)>>

-----------------------------------------------------------------------------
(* reset_camera *)

\* GetBounds() of an attached prop, as vtkRenderer.ComputeVisiblePropBounds reads it
PropBounds(s, p) ==
    IF p.kind = "cube"
    THEN (IF p.id \in DOMAIN s.cube_state THEN s.cube_state[p.id].bounds ELSE <<>>)
    ELSE p.bounds

\* vtkRenderer.ResetCamera(): the focal point moves to the centre of the visible
\* props and the position follows it along the unchanged view direction; with
\* no bounded prop attached the camera is left alone
ResetCamera(s) ==
    LET bs == {PropBounds(s, p) : p \in s.attached} \ {<<>>}
        lo(i) == CHOOSE x \in {b[i] : b \in bs} : \A b \in bs : x <= b[i]
        hi(i) == CHOOSE x \in {b[i] : b \in bs} : \A b \in bs : x >= b[i]
        c == <<RNorm(lo(1) + hi(2), 2), RNorm(lo(3) + hi(4), 2), RNorm(lo(5) + hi(6), 2)>>
        s1 == Emit(s, "ResetCamera", NoneActor)
    IN  IF bs = {} THEN s1
        ELSE [s1 EXCEPT !.camera.focal = c,
                        !.camera.pos = VAdd(c, VSub(s.camera.pos, s.camera.focal))]

reset_camera(s) == Emit(ResetCamera(s), "render", NoneActor)

\* the slip of leaving "not self.camera_set" out of the elif
CameraPolicy_IgnoresCameraSet(s, reset, replaced) ==
    IF reset = "True" THEN reset_camera(s)
    ELSE IF reset = "None" /\ ~replaced THEN reset_camera(s)
    ELSE Emit(s, "render", NoneActor)

\* the slip of leaving the elif out: only reset_camera=True fits the camera
CameraPolicy_NoAutoFit(s, reset, replaced) ==
    IF reset = "True" THEN reset_camera(s)
    ELSE Emit(s, "render", NoneActor)

\* the tail shared by add_actor and remove_actor: fit the camera or only redraw.
\* replaced is add_actor's rv; remove_actor has no such term
CameraPolicy(s, reset, replaced) ==
    IF reset = "True" THEN reset_camera(s)
    ELSE IF ~s.camera_set /\ reset = "None" /\ ~replaced THEN reset_camera(s)
    ELSE Emit(s, "render", NoneActor)

-----------------------------------------------------------------------------
(* The argument of remove_actor: a name, an actor or None *)

ArgName(n) == [t |-> "str", name |-> n, actor |-> NoneActor, list |-> <<>>]
ArgActor(a) == [t |-> "actor", name |-> NoName, actor |-> a, list |-> <<>>]
ArgNone == [t |-> "none", name |-> NoName, actor |-> NoneActor, list |-> <<>>]

\* the keys k with k.startswith(name + '-'), in dict order
PrefixedKeys(d, name) == SelectSeq(Keys(d), LAMBDA k : StartsWith(k, name \o "-"))

\* for k, v in self._actors.items(): if v == actor: name = k
\* (the last key holding the actor; None when no key holds it)
NameOfActor(d, actor) ==
    LET hits == {i \in 1..Len(d) : d[i].actor = actor}
    IN  IF hits = {} THEN NoName
        ELSE d[CHOOSE i \in hits : \A j \in hits : j <= i].name

-----------------------------------------------------------------------------
(* remove_actor, add_actor and the decorations they keep up to date *)

RECURSIVE remove_actor(_, _, _)
RECURSIVE RemoveEach(_, _, _, _, _)
RECURSIVE RemoveOne(_, _, _, _)
RECURSIVE add_actor(_, _, _, _, _)
RECURSIVE update_bounds_axes(_)
RECURSIVE remove_bounding_box(_)
RECURSIVE add_bounding_box(_, _, _, _)
RECURSIVE RemoveMapperEach(_, _, _, _)

\* list.remove(x): the first occurrence goes; ValueError, which the caller
\* passes over, leaves the list as it is
ListRemove(l, x) ==
    IF \A i \in 1..Len(l) : l[i] # x THEN l
    ELSE LET i == CHOOSE j \in 1..Len(l) : l[j] = x /\ \A k \in 1..(j - 1) : l[k] # x
         IN  SubSeq(l, 1, i - 1) \o SubSeq(l, i + 1, Len(l))

\* plotter._scalar_bar_mappers[name]
MappersOf(s, name) ==
    LET d == s.scalar_bars.mappers
    IN  d[CHOOSE i \in 1..Len(d) : d[i].name = name].mappers

\* plotter._scalar_bar_mappers[name].remove(mapper), ValueError passed over
ForgetMapper(s, name, mapper) ==
    [s EXCEPT !.scalar_bars.mappers =
        [i \in 1..Len(@) |->
            IF @[i].name = name
            THEN [name |-> name, mappers |-> ListRemove(@[i].mappers, mapper)]
            ELSE @[i]]]

\* slot = _scalar_bar_slot_lookup.pop(name), _scalar_bar_mappers.pop(name),
\* _scalar_bar_ranges.pop(name) and _scalar_bar_actors.pop(name)
PopScalarBar(s, name) ==
    [s EXCEPT !.scalar_bars.slot_lookup = {e \in @ : e.name # name},
              !.scalar_bars.mappers = SelectSeq(@, LAMBDA e : e.name # name),
              !.scalar_bars.ranges = {e \in @ : e.name # name},
              !.scalar_bars.actors = {e \in @ : e.name # name}]

\* plotter._scalar_bar_slots.add(slot)
FreeSlot(s, slot) == [s EXCEPT !.scalar_bars.slots = @ \cup {slot}]

\* the slip of a cleanup that forgets to hand the display slot back
DropScalarBar_KeepsSlot(s, name, slot, bar) ==
    remove_actor(PopScalarBar(s, name), ArgActor(bar), "False")

\* the body of "if len(plotter._scalar_bar_mappers[name]) < 1": the colorbar
\* leaves the four tables, plotter.remove_actor takes its actor off the
\* renderer, and the slot is free again.  slot and bar are what the two pops
\* return
DropScalarBar(s, name, slot, bar) ==
    FreeSlot(remove_actor(PopScalarBar(s, name), ArgActor(bar), "False"), slot)

\* one round of the loop, after the mapper has been taken off the list
DropIfEmpty(s, name) ==
    IF Len(MappersOf(s, name)) < 1
    THEN DropScalarBar(s, name,
                       (CHOOSE e \in s.scalar_bars.slot_lookup : e.name = name).slot,
                       (CHOOSE e \in s.scalar_bars.actors : e.name = name).actor)
    ELSE s

\* for name in list(plotter._scalar_bar_mappers.keys())
RemoveMapperEach(s, names, i, mapper) ==
    IF i > Len(names) THEN s
    ELSE RemoveMapperEach(DropIfEmpty(ForgetMapper(s, names[i], mapper), names[i]),
                          names, i + 1, mapper)

\* _remove_mapper_from_plotter(self.parent, actor, False)
remove_mapper_from_plotter(s, actor) ==
    RemoveMapperEach(Emit(s, "_remove_mapper_from_plotter", actor),
                     [i \in 1..Len(s.scalar_bars.mappers) |-> s.scalar_bars.mappers[i].name],
                     1, GetMapper(actor))

\* "if rv or success: success = True" and the next round of the loop; s is the
\* renderer after remove_actor(list[i]), whose answer is s.ret
RemoveRest(s, list, i, reset, success) ==
    RemoveEach(s, list, i + 1, reset, s.ret = "True" \/ success)

\* the loop "for a in actor" of remove_actor over a list of names
RemoveEach(s, list, i, reset, success) ==
    IF i > Len(list) THEN Return(s, IF success THEN "True" ELSE "False")
    ELSE RemoveRest(remove_actor(s, ArgName(list[i]), reset), list, i, reset, success)

\* self.RemoveActor(actor)
Detach(s, actor) == [Emit(s, "RemoveActor", actor) EXCEPT !.attached = @ \ {actor}]

\* the lookup of the name by value when it is not known, and
\* self._actors.pop(name, None)
PopActor(s, actor, name) ==
    [Emit(s, "_actors.pop", actor) EXCEPT !.actors =
        DictPop(@, IF name = NoName THEN NameOfActor(s.actors, actor) ELSE name)]

\* the slip of detaching the actor before the plotter is told about it
RemoveOne_DetachFirst(s, actor, name, reset) ==
    IF s.parent = NoParent THEN Raise(s, "AttributeError")
    ELSE
    Return(CameraPolicy(update_bounds_axes(
                            PopActor(remove_mapper_from_plotter(Detach(s, actor), actor),
                                     actor, name)),
                        reset, FALSE),
           "True")

\* remove_actor from "First remove this actor's mapper" on: one actor, whose
\* name is known (removal by name) or looked up by value.  With self.parent
\* None, plotter._scalar_bar_mappers raises AttributeError before anything is done
RemoveOne(s, actor, name, reset) ==
    IF s.parent = NoParent THEN Raise(s, "AttributeError")
    ELSE
    Return(CameraPolicy(update_bounds_axes(
                            PopActor(Detach(remove_mapper_from_plotter(s, actor), actor),
                                     actor, name)),
                        reset, FALSE),
           "True")

\* the removal of the keys that start with name + '-'
RemovePrefixed(s, name, reset) ==
    IF Len(PrefixedKeys(s.actors, name)) > 0
    THEN RemoveEach(s, PrefixedKeys(s.actors, name), 1, reset, FALSE)
    ELSE s

\* the slip the comment of the KeyError handler invites ("return success"):
\* an absent name answers True
RemoveNamed_AbsentSucceeds(s, name, reset) ==
    IF ~HasKey(s.actors, name) THEN Return(s, "True")
    ELSE RemoveOne(s, Lookup(s.actors, name), name, reset)

\* actor = self._actors[name], False on KeyError, and the removal of that actor
RemoveNamed(s, name, reset) ==
    IF ~HasKey(s.actors, name) THEN Return(s, "False")
    ELSE RemoveOne(s, Lookup(s.actors, name), name, reset)

remove_actor(s, arg, reset) ==
    IF arg.t = "str"
    THEN RemoveNamed(RemovePrefixed(s, arg.name, reset), arg.name, reset)
    ELSE IF arg.t = "list" THEN RemoveEach(s, arg.list, 1, reset, FALSE)
    ELSE IF arg.t = "none" THEN Return(s, "False")
    ELSE RemoveOne(s, arg.actor, NoName, reset)

\* the culling options add_actor accepts; "True" and "False" are the booleans,
\* and "False" is the default
CullingBack == {"True", "back", "backface", "b"}
CullingFront == {"front", "frontface", "f"}

\* self.AddActor(actor) and self._actors[name] = actor
Register(s, actor, name) ==
    [Emit(s, "AddActor", actor) EXCEPT
        !.attached = @ \cup {actor},
        !.actors = DictSet(@, IF name = NoName THEN HexId(actor) ELSE name, actor)]

\* add_actor from self.AddActor(actor) to the camera policy; s is the renderer
\* after rv = self.remove_actor(name, reset_camera=False), and s.ret is rv
AddRemoved(s, actor, reset, name) ==
    CameraPolicy(Register(s, actor, name), reset, s.ret = "True")

\* "if isinstance(culling, str): culling = culling.lower()"
CullingOption(culling) ==
    IF culling \in {"True", "False"} THEN culling ELSE Lower(culling)

\* actor.SetPickable(pickable), self.ResetCameraClippingRange() and the return
MakePickable(s, actor) ==
    Return(Emit(Emit(s, "SetPickable", actor), "ResetCameraClippingRange", NoneActor),
           "actor")

\* the culling option, at the end of add_actor; "if culling:" skips the block
\* for False and for the empty string
ApplyCulling(s, actor, culling) ==
    IF CullingOption(culling) \in {"False", ""} THEN MakePickable(s, actor)
    ELSE IF CullingOption(culling) \in CullingBack
         THEN MakePickable(Emit(s, "BackfaceCullingOn", actor), actor)
    ELSE IF CullingOption(culling) \in CullingFront
         THEN MakePickable(Emit(s, "FrontfaceCullingOn", actor), actor)
    ELSE Raise(s, "RuntimeError")

\* uinput is the actor (for a mapper, the vtkActor that add_actor wraps it in)
add_actor(s, uinput, reset, name, culling) ==
    ApplyCulling(
        update_bounds_axes(
            AddRemoved(remove_actor(s, IF name = NoName THEN ArgNone ELSE ArgName(name),
                                    "False"),
                       uinput, reset, name)),
        uinput, culling)

remove_bounding_box(s) ==
    IF s.box_object # NoObject
    THEN remove_actor([s EXCEPT !.bounding_box_actor = NoneActor, !.box_object = NoObject],
                      IF s.bounding_box_actor = NoneActor THEN ArgNone
                      ELSE ArgActor(s.bounding_box_actor),
                      "False")
    ELSE s

\* 'BoundingBox({})'.format(hex(id(self._box_object)))
BoxName(obj) == "BoundingBox(0x" \o ToString(obj.id) \o ")"

\* self.bounding_box_actor, prop = self.add_actor(...) and prop.SetColor(rgb_color);
\* s is the renderer after that add_actor
TrackBox(s, actor, color) ==
    IF s.err # "" THEN s
    ELSE Return([s EXCEPT !.bounding_box_actor = actor, !.box_color = color], "actor")

\* add_bounding_box after remove_bounding_box: the outline of the current
\* bounds, its actor, and the registration under the outline's name
\* id(self._box_object) is an address: by now remove_bounding_box has dropped
\* the last outline, and the new one is given either the address of a collected
\* outline (s.reuse, the block the allocator hands out again during this call)
\* or an address no key was made from
BuildBox(s, color, reset, culling) ==
    LET id == IF s.reuse # 0 THEN s.reuse ELSE FreshId(s)
        obj == [id |-> id, bounds |-> bounds(s)]
        actor == [kind |-> "box", id |-> id, bounds |-> obj.bounds]
    IN  TrackBox(add_actor([s EXCEPT !.box_object = obj, !.used = @ \cup {id}],
                           actor, reset, BoxName(obj), culling),
                 actor, color)

add_bounding_box(s, color, reset, culling) ==
    BuildBox(remove_bounding_box(s), color, reset, culling)

\* the slip of leaving color=color out: the box is rebuilt in the default colour
UpdateBox_DefaultColor(s) ==
    IF /\ s.box_object # NoObject
       /\ s.bounding_box_actor # NoneActor
       /\ s.box_object.bounds # bounds(s)
    THEN add_bounding_box(remove_bounding_box(s), "grey", "None", "front")
    ELSE s

\* the bounding box is rebuilt, in its colour, when the bounds have changed
UpdateBox(s) ==
    IF /\ s.box_object # NoObject
       /\ s.bounding_box_actor # NoneActor
       /\ s.box_object.bounds # bounds(s)
    THEN add_bounding_box(remove_bounding_box(s), s.box_color, "None", "front")
    ELSE s

\* the slip of leaving the 2D mode out: only the bounds are brought up to date
UpdateCube_Always3D(s) ==
    IF s.cube_axes_actor # NoneActor
    THEN SetCube(s, s.cube_axes_actor, bounds(s), FALSE)
    ELSE s

\* the cube axes are given the current bounds
UpdateCube(s) ==
    IF s.cube_axes_actor # NoneActor
    THEN SetCube(s, s.cube_axes_actor, bounds(s), s.scale # <<1, 1, 1>>)
    ELSE s

update_bounds_axes(s) == UpdateCube(UpdateBox(s))

-----------------------------------------------------------------------------
(* show_bounds, remove_bounds_axes, clear *)

remove_bounds_axes(s) ==
    IF s.cube_axes_actor # NoneActor
    THEN remove_actor(s, ArgActor(s.cube_axes_actor), "False")
    ELSE s

\* a in (b) where (b) is a parenthesised string: the substring test
IsSubstring(a, b) ==
    \E i \in 1..(Len(b) - Len(a) + 1) : SubSeq(b, i, i + Len(a) - 1) = a

\* ticks = ticks.lower() and the tests on it; "" stands for ticks=None, which
\* skips them
TicksOk(ticks) ==
    ticks = "" \/ IsSubstring(Lower(ticks), "inside") \/ IsSubstring(Lower(ticks), "outside")
               \/ IsSubstring(Lower(ticks), "both")

\* location = location.lower() and the tests on it
LocationOk(location) ==
    \/ IsSubstring(Lower(location), "all") \/ IsSubstring(Lower(location), "origin")
    \/ IsSubstring(Lower(location), "outer")
    \/ Lower(location) \in {"default", "closest", "front", "furthest", "back"}

\* rcParams['font']['color'], the colour show_bounds passes on to add_bounding_box
FontColor == "font"

\* self.cube_axes_actor = cube_axes_actor
TrackCube(s, cube) == [s EXCEPT !.cube_axes_actor = cube]

\* if all_edges: self.add_bounding_box(color=color, corner_factor=corner_factor)
AddEdges(s, all_edges) ==
    IF all_edges THEN add_bounding_box(s, FontColor, "None", "front") ELSE s

\* show_bounds after remove_bounds_axes: the new vtkCubeAxesActor, the
\* validation of the arguments, and the registration of the cube axes.
\* padding is a whole number here: 0 is accepted (no cushion), 1 is not below 1.0
BuildCube(s, use_2d, ticks, location, padding, all_edges) ==
    LET id == FreshId(s)
        cube == [kind |-> "cube", id |-> id, bounds |-> <<>>]
        s2 == [s EXCEPT !.used = @ \cup {id}]
    IN  IF ~TicksOk(ticks) THEN Raise(s2, "ValueError")
        ELSE IF ~LocationOk(location) THEN Raise(s2, "ValueError")
        ELSE IF ~(0 <= padding /\ padding < 1) THEN Raise(s2, "ValueError")
        ELSE Return(
                AddEdges(
                    TrackCube(
                        add_actor(SetCube(s2, cube, bounds(s), use_2d \/ s.scale # <<1, 1, 1>>),
                                  cube, "False", NoName, "False"),
                        cube),
                    all_edges),
                "actor")

show_bounds(s, use_2d, ticks, location, padding, all_edges) ==
    BuildCube(remove_bounds_axes(s), use_2d, ticks, location, padding, all_edges)

RECURSIVE ClearEach(_, _, _)
ClearEach(s, names, i) ==
    IF i > Len(names) THEN s
    ELSE ClearEach(remove_actor(s, ArgName(names[i]), "False"), names, i + 1)

\* self.RemoveAllViewProps()
RemoveAllViewProps(s) == [Emit(s, "RemoveAllViewProps", NoneActor) EXCEPT !.attached = {}]

clear(s) ==
    Return(RemoveAllViewProps(IF Len(s.actors) > 0 THEN ClearEach(s, Keys(s.actors), 1)
                              ELSE s),
           "None")

-----------------------------------------------------------------------------
(* add_axes_at_origin *)

\* GetBounds() of the vtkAxesActor that create_axes_marker returns: symmetric
\* about the origin, one unit long
AxesMarkerBounds == <<-1, 1, -1, 1, -1, 1>>

\* the marker is attached and registered under its id; nothing else is called
\* add_border(): a new vtkActor2D is attached with AddViewProp; the registry
\* does not hear of it
add_border(s) ==
    Return([Emit(s, "AddViewProp", [kind |-> "border", id |-> FreshId(s), bounds |-> <<>>])
                EXCEPT !.attached = @ \cup {[kind |-> "border", id |-> FreshId(s),
                                             bounds |-> <<>>]},
                       !.used = @ \cup {FreshId(s)}],
           "None")

add_axes_at_origin(s) ==
    LET id == FreshId(s)
        marker == [kind |-> "axes", id |-> id, bounds |-> AxesMarkerBounds]
    IN  Return([Emit(s, "AddActor", marker) EXCEPT
                    !.attached = @ \cup {marker},
                    !.actors = DictSet(@, HexId(marker), marker),
                    !.used = @ \cup {id}],
               "actor")

-----------------------------------------------------------------------------
(* The camera *)

\* rcParams['camera']['position'] and rcParams['camera']['viewup']
DefaultPosition == <<1, 1, 1>>
DefaultViewup == <<0, 0, 1>>

\* the slip of storing the caller's coordinates as they are, without scaling
set_camera_position_Unscaled(s, cpos) ==
    LET s1 == [s EXCEPT !.camera.pos = cpos[1],
                        !.camera.focal = cpos[2],
                        !.camera.up = cpos[3]]
        s2 == Emit(s1, "ResetCameraClippingRange", NoneActor)
    IN  Return([s2 EXCEPT !.camera_set = TRUE, !.written = cpos], "None")

\* the setter of camera_position for an explicit [position, focal_point, view_up]
set_camera_position(s, cpos) ==
    LET s1 == [s EXCEPT !.camera.pos = scale_point(s.camera, cpos[1], FALSE),
                        !.camera.focal = scale_point(s.camera, cpos[2], FALSE),
                        !.camera.up = cpos[3]]
        s2 == Emit(s1, "ResetCameraClippingRange", NoneActor)
    IN  Return([s2 EXCEPT !.camera_set = TRUE, !.written = cpos], "None")

\* the getter of camera_position
camera_position(s) ==
    <<scale_point(s.camera, s.camera.pos, TRUE),
      scale_point(s.camera, s.camera.focal, TRUE),
      s.camera.up>>

get_default_cam_pos(s, negative) ==
    LET c == center(s)
        focal_pt == IF \E i \in 1..3 : IsNaN(c[i]) THEN VInt(<<0, 0, 0>>) ELSE c
        p == IF negative THEN [i \in 1..3 |-> -DefaultPosition[i]] ELSE DefaultPosition
        position == [i \in 1..3 |-> RDiv(R(p[i]), R(s.scale[i]))]
    IN  <<VAdd(position, focal_pt), focal_pt, VInt(DefaultViewup)>>

\* the slip of leaving "self.camera_set = False" out: the setter's True stays
view_isometric_KeepsCameraSet(s, negative) ==
    LET cpos == get_default_cam_pos(s, negative)
        s1 == set_camera_position(s, cpos)
    IN  Return(reset_camera(s1), "None")

view_isometric(s, negative) ==
    LET cpos == get_default_cam_pos(s, negative)
        s1 == set_camera_position(s, cpos)
        s2 == [s1 EXCEPT !.camera_set = FALSE]
    IN  Return(reset_camera(s2), "None")

\* an omitted axis is <<>>, a given one <<value>>
set_scale(s, xscale, yscale, zscale, reset) ==
    LET x == IF xscale = <<>> THEN s.scale[1] ELSE xscale[1]
        y == IF yscale = <<>> THEN s.scale[2] ELSE yscale[1]
        z == IF zscale = <<>> THEN s.scale[3] ELSE zscale[1]
        s1 == [s EXCEPT !.scale = <<x, y, z>>, !.camera.mtx = VInt(<<x, y, z>>)]
        s2 == Emit(s1, "render", NoneActor)
    IN  Return(IF reset THEN reset_camera(update_bounds_axes(s2)) ELSE s2, "None")

-----------------------------------------------------------------------------
(* The named views and camera_position = <string> *)

\* self.camera_position = [vector + focal_pt, focal_pt, viewup], then reset_camera()
view_vector(s, vector, viewup) ==
    Return(reset_camera(set_camera_position(s,
               <<VAdd(VInt(vector), center(s)), center(s), VInt(viewup)>>)),
           "None")

\* vec *= -1
Negated(vec, negative) == IF negative THEN <<-vec[1], -vec[2], -vec[3]>> ELSE vec

view_xy(s, negative) == view_vector(s, Negated(<<0, 0, 1>>, negative), <<0, 1, 0>>)
view_yx(s, negative) == view_vector(s, Negated(<<0, 0, -1>>, negative), <<1, 0, 0>>)
view_xz(s, negative) == view_vector(s, Negated(<<0, -1, 0>>, negative), <<0, 0, 1>>)
view_zx(s, negative) == view_vector(s, Negated(<<0, 1, 0>>, negative), <<1, 0, 0>>)
view_yz(s, negative) == view_vector(s, Negated(<<1, 0, 0>>, negative), <<0, 0, 1>>)
\* the slip of giving view_zy the view-up of view_yz
view_zy_UpZ(s, negative) == view_vector(s, Negated(<<-1, 0, 0>>, negative), <<0, 0, 1>>)

view_zy(s, negative) == view_vector(s, Negated(<<-1, 0, 0>>, negative), <<0, 1, 0>>)

\* the six names the setter of camera_position knows
NamedViews == {"xy", "xz", "yz", "yx", "zx", "zy"}

\* the setter of camera_position for a string: the if/elif chain has no else,
\* and the bare "return" after it ends the call
set_camera_position_str(s, text) ==
    IF Lower(text) = "xy" THEN Return(view_xy(s, FALSE), "None")
    ELSE IF Lower(text) = "xz" THEN Return(view_xz(s, FALSE), "None")
    ELSE IF Lower(text) = "yz" THEN Return(view_yz(s, FALSE), "None")
    ELSE IF Lower(text) = "yx" THEN Return(view_yx(s, FALSE), "None")
    ELSE IF Lower(text) = "zx" THEN Return(view_zx(s, FALSE), "None")
    ELSE IF Lower(text) = "zy" THEN Return(view_zy(s, FALSE), "None")
    ELSE Return(s, "None")

\* camera_position = None: "if camera_location is None: return"
set_camera_position_none(s) == Return(s, "None")

\* camera_position = (x, y, z): "return self.view_vector(camera_location)",
\* where viewup=None stands for rcParams['camera']['viewup']
set_camera_position_vector(s, vector) == view_vector(s, vector, DefaultViewup)

\* the slip of leaving "self.camera_set = True" out of set_position
set_position_ForgetsCameraSet(s, point, reset) ==
    LET s1 == [s EXCEPT !.camera.pos = scale_point(s.camera, point, FALSE)]
    IN  Return(IF reset THEN reset_camera(s1) ELSE s1, "None")

\* set_focus(point): the focal point alone moves
set_focus(s, point) ==
    Return([s EXCEPT !.camera.focal = scale_point(s.camera, point, FALSE)], "None")

\* set_viewup(vector): the view-up alone changes
set_viewup(s, vector) == Return([s EXCEPT !.camera.up = vector], "None")

set_position(s, point, reset) ==
    LET s1 == [s EXCEPT !.camera.pos = scale_point(s.camera, point, FALSE)]
        s2 == IF reset THEN reset_camera(s1) ELSE s1
    IN  Return([s2 EXCEPT !.camera_set = TRUE], "None")

\* the setter of camera: SetActiveCamera(camera), and camera_position is
\* assigned what the getter reads from the new camera
set_camera(s, cam) ==
    set_camera_position(Emit([s EXCEPT !.camera = cam], "SetActiveCamera", NoneActor),
                        <<scale_point(cam, cam.pos, TRUE),
                          scale_point(cam, cam.focal, TRUE),
                          cam.up>>)

-----------------------------------------------------------------------------
(* enable_eye_dome_lighting and deep_clean (__del__ is a call of deep_clean) *)

\* disable_eye_dome_lighting(): SetPass(None) and del self.edl_pass
disable_eye_dome_lighting(s) ==
    IF ~s.edl_pass THEN Return(s, "None")
    ELSE Return([Emit(s, "SetPass", NoneActor) EXCEPT !.edl_pass = FALSE], "None")

\* enable_eye_dome_lighting(): with a pass already there the renderer is
\* returned as it is; otherwise self.edl_pass is made and
\* self.glrenderer.SetPass(self.edl_pass) hands it to the renderer
enable_eye_dome_lighting(s) ==
    IF s.edl_pass THEN Return(s, "self")
    ELSE Return([Emit(s, "SetPass", [kind |-> "edl_pass", id |-> 0, bounds |-> <<>>])
                    EXCEPT !.edl_pass = TRUE],
                "glrenderer")

\* del self.cube_axes_actor and del self.edl_pass, each when the attribute exists
CleanPasses(s) == [s EXCEPT !.cube_axes_actor = NoneActor, !.edl_pass = FALSE]

\* if hasattr(self, '_box_object'): self.remove_bounding_box()
CleanBox(s) == IF s.box_object # NoObject THEN remove_bounding_box(s) ELSE s

\* RemoveAllViewProps(), self._actors = None and, last, self.parent = None;
\* s is the renderer after the decorations are gone, or where that raised
Release(s) ==
    IF s.err # "" THEN s
    ELSE Return([RemoveAllViewProps(s) EXCEPT !.actors = <<>>, !.released = TRUE,
                                              !.parent = NoParent],
                "None")

\* the slip of dropping the reference to the parent first, not last
deep_clean_ParentFirst(s) ==
    Release(CleanBox([CleanPasses(s) EXCEPT !.parent = NoParent]))

deep_clean(s) == Release(CleanBox(CleanPasses(s)))

-----------------------------------------------------------------------------
(* The state machine *)

\* the renderer's fields
Fields ==
    [actors |-> actors, attached |-> attached, camera_set |-> camera_set,
     bounding_box_actor |-> bounding_box_actor, box_object |-> box_object,
     box_color |-> box_color, cube_axes_actor |-> cube_axes_actor,
     cube_state |-> cube_state, scale |-> scale, camera |-> camera,
     parent |-> parent, edl_pass |-> edl_pass, released |-> released,
     scalar_bars |-> scalar_bars]

\* the ids of the objects alive in the current state
LiveIds ==
    {a.id : a \in Values(actors) \cup attached \cup {bounding_box_actor, cube_axes_actor}}
        \cup {box_object.id} \cup {a.id : a \in UserActors}
        \cup {e.actor.id : e \in scalar_bars.actors}

\* the record a call starts from
Start ==
    [actors |-> actors, attached |-> attached, camera_set |-> camera_set,
     bounding_box_actor |-> bounding_box_actor, box_object |-> box_object,
     box_color |-> box_color, cube_axes_actor |-> cube_axes_actor,
     cube_state |-> cube_state, scale |-> scale, camera |-> camera,
     parent |-> parent, edl_pass |-> edl_pass, released |-> released,
     scalar_bars |-> scalar_bars,
     ret |-> "", err |-> "", trace |-> <<>>, written |-> <<>>, used |-> LiveIds,
     reuse |-> 0]

\* the addresses the allocator may hand out again during the next call: those
\* of the outlines of the bounding boxes that are registered but no longer
\* tracked (their outline is collected by the time the next one is built),
\* and 0 for an address no registry key was made from; builds says whether
\* the call can build an outline at all. The address of the tracked outline,
\* which a rebuild frees, matters where a key made from it is looked up again
\* later in the call, which only clear() does: elsewhere the two outcomes
\* differ in the spelling of the new key and nothing else
Recycled(builds) ==
    {0} \cup {a.id : a \in {x \in Values(actors) :
                                builds /\ x.kind = "box" /\ x # bounding_box_actor}}

\* the cube-axes actors something still refers to after the call
LiveCubes(s) ==
    {a.id : a \in {x \in Values(s.actors) \cup s.attached \cup {s.cube_axes_actor} :
                      x.kind = "cube"}}

\* the call described by o took the renderer from the current state to s
Finish(s, o) ==
    /\ op.f = "idle"
    /\ actors' = s.actors
    /\ attached' = s.attached
    /\ camera_set' = s.camera_set
    /\ bounding_box_actor' = s.bounding_box_actor
    /\ box_object' = s.box_object
    /\ box_color' = s.box_color
    /\ cube_axes_actor' = s.cube_axes_actor
    /\ cube_state' = [i \in DOMAIN s.cube_state \cap LiveCubes(s) |-> s.cube_state[i]]
    /\ scale' = s.scale
    /\ camera' = s.camera
    /\ parent' = s.parent
    /\ edl_pass' = s.edl_pass
    /\ released' = s.released
    /\ scalar_bars' = s.scalar_bars
    /\ ret' = s.ret
    /\ err' = s.err
    /\ trace' = s.trace
    /\ written' = s.written
    /\ op' = o
    /\ pre' = Fields

\* the description of a call; the fields a method does not take keep these defaults
Call(f) ==
    [f |-> f, actor |-> NoneActor, name |-> NoName, arg |-> ArgNone, reset |-> "False",
     culling |-> "False", negative |-> FALSE, cpos |-> <<>>, all_edges |-> FALSE,
     xyz |-> <<>>, point |-> <<>>, invert |-> FALSE, text |-> "", ticks |-> "",
     location |-> "", padding |-> 0, use_2d |-> FALSE, cam |-> <<>>]

\* the entries of the registry that hold one of the caller's actors
UserEntries(d) == Cardinality({i \in 1..Len(d) : d[i].actor \in UserActors})

\* the explicit camera positions the caller assigns
CameraTriples == {<<VInt(<<1, 1, 2>>), VInt(<<1, 1, 1>>), VInt(<<0, 1, 0>>)>>}

\* vtkCamera's defaults
InitCamera ==
    [pos |-> VInt(<<0, 0, 1>>), focal |-> VInt(<<0, 0, 0>>), up |-> VInt(<<0, 1, 0>>),
     mtx |-> VInt(<<1, 1, 1>>)]

Init ==
    /\ actors = <<>>
    /\ attached = {BorderActor}
    /\ camera_set = FALSE
    /\ bounding_box_actor = NoneActor
    /\ box_object = NoObject
    /\ box_color = ""
    /\ cube_axes_actor = NoneActor
    /\ cube_state = <<>>
    /\ scale = <<1, 1, 1>>
    /\ camera = InitCamera
    /\ parent = ThePlotter
    /\ edl_pass = FALSE
    /\ released = FALSE
    /\ scalar_bars = NoScalarBars
    /\ op = Call("idle")
    /\ ret = ""
    /\ err = ""
    /\ trace = <<>>
    /\ written = <<>>
    /\ pre = [actors |-> <<>>, attached |-> {BorderActor}, camera_set |-> FALSE,
              bounding_box_actor |-> NoneActor, box_object |-> NoObject,
              box_color |-> "", cube_axes_actor |-> NoneActor, cube_state |-> <<>>,
              scale |-> <<1, 1, 1>>, camera |-> InitCamera,
              parent |-> ThePlotter, edl_pass |-> FALSE, released |-> FALSE,
              scalar_bars |-> NoScalarBars]

\* the (actor, name) pairs the caller registers: "a" is used for both actors
AddPairs == {<<ActorA, "a">>, <<ActorB, "a">>, <<ActorB, "b">>, <<ActorA, "a-0">>}

AddActor ==
    \E pair \in AddPairs, reset \in ResetFlags, culling \in {"False", "sideways"} :
        LET actor == pair[1]
            name == pair[2]
        IN  /\ \/ UserEntries(actors) < MaxActors
               \/ HasKey(actors, IF name = NoName THEN HexId(actor) ELSE name)
            /\ Finish(add_actor(Start, actor, reset, name, culling),
                      [Call("add_actor") EXCEPT !.actor = actor, !.name = name,
                                                !.reset = reset, !.culling = culling])

\* the arguments the caller passes to remove_actor: a name, one of its own
\* actors, a decoration actor it was handed, or None
RemoveArgs ==
    {ArgName(n) : n \in {"a", "b", "a-0"}} \cup {ArgActor(a) : a \in UserActors}
        \cup {ArgActor(a) : a \in {bounding_box_actor, cube_axes_actor} \ {NoneActor}}
        \cup {ArgNone}

RemoveActor ==
    \E arg \in RemoveArgs, reset \in ResetFlags :
        Finish(remove_actor(Start, arg, reset),
               [Call("remove_actor") EXCEPT !.arg = arg, !.reset = reset])

\* clear(): the keys are listed before the loop, so a bounding box rebuilt
\* during the loop is met again by the loop exactly when its outline was given
\* the address of the one just collected
Clear ==
    \E reuse \in Recycled(TRUE) \cup {box_object.id} :
        Finish(clear([Start EXCEPT !.reuse = reuse]), Call("clear"))

\* remove_bounding_box() called by the user
RemoveBoundingBox ==
    Finish(Return(remove_bounding_box(Start), "None"), Call("remove_bounding_box"))

AddBoundingBox ==
    Finish(add_bounding_box(Start, "grey", "None", "front"),
           [Call("add_bounding_box") EXCEPT !.reset = "None", !.culling = "front"])

ShowBounds ==
    \E all_edges \in BOOLEAN :
        Finish(show_bounds(Start, FALSE, "", "closest", 0, all_edges),
               [Call("show_bounds") EXCEPT !.all_edges = all_edges])

SetCameraPosition ==
    \E cpos \in CameraTriples :
        Finish(set_camera_position(Start, cpos),
               [Call("camera_position=") EXCEPT !.cpos = cpos])

\* Object identities are only ever compared for equality, so between calls the
\* decoration objects are renamed to the least ids: the tracked bounding box
\* to 3, the tracked cube axes to 4, any other in the order of their ids.
Decorations ==
    {a \in Values(actors) \cup attached \cup {bounding_box_actor, cube_axes_actor}
            \cup {e.actor : e \in scalar_bars.actors} :
        a.kind \in {"box", "cube", "axes", "bar", "border"} /\ a.id # 0}

Renamed(id) ==
    IF id = 0 \/ id \in {a.id : a \in UserActors} THEN id
    ELSE IF id = bounding_box_actor.id \/ (bounding_box_actor = NoneActor /\ id = box_object.id)
         THEN 3
    ELSE IF id = cube_axes_actor.id THEN 4
    ELSE 5 + Cardinality({a.id : a \in {d \in Decorations :
                 /\ d.id < id
                 /\ d.id \notin {bounding_box_actor.id, cube_axes_actor.id}
                 /\ ~(bounding_box_actor = NoneActor /\ d.id = box_object.id)}})

RenamedActor(a) == [a EXCEPT !.id = Renamed(a.id)]

RenamedKey(e) ==
    IF e.name = HexId(e.actor) THEN HexId(RenamedActor(e.actor))
    ELSE IF e.name = BoxName(e.actor) THEN BoxName(RenamedActor(e.actor))
    ELSE e.name

\* the caller has taken the result; the record of the call is dropped
Idle ==
    /\ op.f # "idle"
    /\ actors' = [i \in 1..Len(actors) |->
                    [name |-> RenamedKey(actors[i]), actor |-> RenamedActor(actors[i].actor)]]
    /\ attached' = {RenamedActor(a) : a \in attached}
    /\ bounding_box_actor' = RenamedActor(bounding_box_actor)
    /\ box_object' = [box_object EXCEPT !.id = Renamed(box_object.id)]
    /\ cube_axes_actor' = RenamedActor(cube_axes_actor)
    /\ cube_state' = [i \in {Renamed(j) : j \in DOMAIN cube_state} |->
                        cube_state[CHOOSE j \in DOMAIN cube_state : Renamed(j) = i]]
    /\ scalar_bars' = [scalar_bars EXCEPT !.actors =
                          {[name |-> e.name, actor |-> RenamedActor(e.actor)] : e \in @}]
    /\ op' = Call("idle")
    /\ ret' = ""
    /\ err' = ""
    /\ trace' = <<>>
    /\ written' = <<>>
    /\ pre' = [Fields EXCEPT !.actors = actors', !.attached = attached',
                             !.bounding_box_actor = bounding_box_actor',
                             !.box_object = box_object',
                             !.cube_axes_actor = cube_axes_actor',
                             !.cube_state = cube_state',
                             !.scalar_bars = scalar_bars']
    /\ UNCHANGED <<camera_set, box_color, scale, camera, parent, edl_pass, released>>

Next ==
    \/ Idle
    \/ AddActor
    \/ RemoveActor
    \/ Clear
    \/ AddBoundingBox
    \/ ShowBounds
    \/ SetCameraPosition

Spec == Init /\ [][Next]_vars

-----------------------------------------------------------------------------
(* The camera and the scale, over a scene of two named actors *)

CamAddActor ==
    \E pair \in {<<ActorA, "a">>, <<ActorB, "b">>}, reset \in {"False", "None"},
       reuse \in Recycled(bounding_box_actor # NoneActor) :
        Finish(add_actor([Start EXCEPT !.reuse = reuse], pair[1], reset, pair[2], "False"),
               [Call("add_actor") EXCEPT !.actor = pair[1], !.name = pair[2],
                                         !.reset = reset])

CamRemoveActor ==
    \E name \in {"a", "b"}, reuse \in Recycled(bounding_box_actor # NoneActor) :
        Finish(remove_actor([Start EXCEPT !.reuse = reuse], ArgName(name), "False"),
               [Call("remove_actor") EXCEPT !.arg = ArgName(name)])

\* the scale arguments the caller passes for one axis
ScaleArgs == {<<>>, <<1>>, <<2>>}

SetScale ==
    \E xscale \in ScaleArgs, zscale \in ScaleArgs, reset \in BOOLEAN :
        Finish(set_scale(Start, xscale, <<>>, zscale, reset),
               [Call("set_scale") EXCEPT !.xyz = <<xscale, <<>>, zscale>>,
                                         !.reset = IF reset THEN "True" ELSE "False"])

ViewIsometric ==
    \E negative \in BOOLEAN :
        Finish(view_isometric(Start, negative),
               [Call("view_isometric") EXCEPT !.negative = negative])

\* add_border() called by the user
AddBorder ==
    /\ Cardinality({a \in attached : a.kind = "border" /\ a.id # 0}) < MaxBorders
    /\ Finish(add_border(Start), Call("add_border"))

NextCamera ==
    \/ Idle
    \/ CamAddActor
    \/ CamRemoveActor
    \/ Clear
    \/ AddBorder
    \/ SetScale
    \/ SetCameraPosition
    \/ ViewIsometric

SpecCamera == Init /\ [][NextCamera]_vars

-----------------------------------------------------------------------------
(* The scale, scale_point and the camera coordinates, on an empty scene *)

\* set_scale with the scale of an axis zero and negative included
SetAnyScale ==
    \E xscale \in {<<>>, <<0>>, <<-1>>, <<1>>, <<2>>}, zscale \in {<<>>, <<2>>}, reset \in BOOLEAN :
        Finish(set_scale(Start, xscale, <<>>, zscale, reset),
               [Call("set_scale") EXCEPT !.xyz = <<xscale, <<>>, zscale>>,
                                         !.reset = IF reset THEN "True" ELSE "False"])

\* scale_point(renderer.camera, point, invert)
ScalePoint ==
    \E point \in {VInt(<<x, y, 1>>) : x \in {-1, 0, 2}, y \in {0, 3}}
                      \cup {<<<<1, 2>>, R(0), R(1)>>},
       invert \in BOOLEAN :
        Finish(Return(Start, scale_point(camera, point, invert)),
               [Call("scale_point") EXCEPT !.point = point, !.invert = invert])

\* reading renderer.camera_position
GetCameraPosition ==
    Finish(Return(Start, camera_position(Start)), Call("camera_position"))

\* the explicit triples the caller assigns to camera_position
WrittenTriples ==
    CameraTriples \cup {<<VInt(<<2, 0, -1>>), VInt(<<0, 0, 0>>), VInt(<<0, 0, 1>>)>>}

SetAnyCameraPosition ==
    \E cpos \in WrittenTriples :
        Finish(set_camera_position(Start, cpos),
               [Call("camera_position=") EXCEPT !.cpos = cpos])

\* camera_position = 'xy', 'ZY', a string that names no view, ''
SetCameraPositionStr ==
    \E text \in {"xy", "ZY", "foo", ""} :
        Finish(set_camera_position_str(Start, text),
               [Call("camera_position=") EXCEPT !.text = text])

\* set_focus(point)
SetFocus ==
    \E point \in {VInt(<<1, 1, 1>>)} :
        Finish(set_focus(Start, point), [Call("set_focus") EXCEPT !.point = point])

\* set_viewup(vector)
SetViewup ==
    \E vector \in {VInt(<<0, 0, 1>>)} :
        Finish(set_viewup(Start, vector), [Call("set_viewup") EXCEPT !.point = vector])

NextScale ==
    \/ Idle
    \/ SetAnyScale
    \/ ScalePoint
    \/ GetCameraPosition
    \/ SetAnyCameraPosition
    \/ SetCameraPositionStr
    \/ SetFocus
    \/ SetViewup

SpecScale == Init /\ [][NextScale]_vars

-----------------------------------------------------------------------------
(* The decorations with calls that fail, and the teardown *)

\* the entries of the registry that hold a bounding-box actor, a cube-axes actor
BoxEntries(d) == Cardinality({i \in 1..Len(d) : d[i].actor.kind = "box"})
CubeEntries(d) == Cardinality({i \in 1..Len(d) : d[i].actor.kind = "cube"})

\* add_bounding_box(culling=...), with a culling add_actor does not understand too
AddAnyBoundingBox ==
    \E culling \in {"front", "sideways", ""}, reuse \in Recycled(TRUE) :
        /\ BoxEntries(actors) < MaxBoxes
        /\ Finish(add_bounding_box([Start EXCEPT !.reuse = reuse], "grey", "None", culling),
                  [Call("add_bounding_box") EXCEPT !.reset = "None", !.culling = culling])

\* show_bounds(ticks=..., location=..., padding=...): the arguments are all
\* accepted, or one of them is what the validation rejects
ShowAnyBounds ==
    \E args \in {<<"", "closest", 0>>, <<"sideways", "closest", 0>>,
                 <<"", "nowhere", 0>>, <<"", "closest", 1>>},
       reuse \in Recycled(bounding_box_actor # NoneActor) :
        /\ BoxEntries(actors) < MaxBoxes
        /\ Finish(show_bounds([Start EXCEPT !.reuse = reuse],
                              FALSE, args[1], args[2], args[3], FALSE),
                  [Call("show_bounds") EXCEPT !.ticks = args[1], !.location = args[2],
                                              !.padding = args[3]])

EnableEyeDomeLighting ==
    Finish(enable_eye_dome_lighting(Start), Call("enable_eye_dome_lighting"))

DisableEyeDomeLighting ==
    Finish(disable_eye_dome_lighting(Start), Call("disable_eye_dome_lighting"))

\* deep_clean(), by the caller or by __del__
DeepClean == Finish(deep_clean(Start), Call("deep_clean"))

\* once released the renderer is only cleaned again
NextDecor ==
    \/ Idle
    \/ DeepClean
    \/ (~released /\ CamAddActor)
    \/ (~released /\ CamRemoveActor)
    \/ (~released /\ AddAnyBoundingBox)
    \/ (~released /\ ShowAnyBounds)
    \/ (~released /\ EnableEyeDomeLighting)
    \/ (~released /\ RemoveBoundingBox)
    \/ (~released /\ DisableEyeDomeLighting)

SpecDecor == Init /\ [][NextDecor]_vars

-----------------------------------------------------------------------------
(* The decorations kept in step with the scene and the scale *)

\* the entries of the registry that hold an axes marker
MarkerEntries(d) == Cardinality({i \in 1..Len(d) : d[i].actor.kind = "axes"})

AddAxesAtOrigin ==
    /\ MarkerEntries(actors) < MaxMarkers
    /\ Finish(add_axes_at_origin(Start), Call("add_axes_at_origin"))

\* show_bounds(use_2d=..., all_edges=...)
ShowBounds2D ==
    \E use_2d \in BOOLEAN, all_edges \in BOOLEAN :
        Finish(show_bounds(Start, use_2d, "", "closest", 0, all_edges),
               [Call("show_bounds") EXCEPT !.use_2d = use_2d, !.all_edges = all_edges])

\* set_scale(xscale=..., reset_camera=...)
SetXScale ==
    \E xscale \in ScaleArgs, reset \in BOOLEAN :
        Finish(set_scale(Start, xscale, <<>>, <<>>, reset),
               [Call("set_scale") EXCEPT !.xyz = <<xscale, <<>>, <<>>>>,
                                         !.reset = IF reset THEN "True" ELSE "False"])

\* add_actor and remove_actor over the names 'a' and 'a-0': remove_actor('a')
\* takes the key 'a-0' for a part of 'a' and removes it first
AddPartActor ==
    \E pair \in {<<ActorA, "a">>, <<ActorB, "a-0">>}, reset \in {"False", "None"} :
        Finish(add_actor(Start, pair[1], reset, pair[2], "False"),
               [Call("add_actor") EXCEPT !.actor = pair[1], !.name = pair[2],
                                         !.reset = reset])

RemovePartActor ==
    \E name \in {"a", "a-0"} :
        Finish(remove_actor(Start, ArgName(name), "False"),
               [Call("remove_actor") EXCEPT !.arg = ArgName(name)])

\* update_bounds_axes() called by the user
UpdateBoundsAxes ==
    Finish(Return(update_bounds_axes(Start), "None"), Call("update_bounds_axes"))

NextSync ==
    \/ Idle
    \/ UpdateBoundsAxes
    \/ AddPartActor
    \/ RemovePartActor
    \/ Clear
    \/ AddBoundingBox
    \/ RemoveBoundingBox
    \/ ShowBounds2D
    \/ AddAxesAtOrigin
    \/ SetXScale

SpecSync == Init /\ [][NextSync]_vars

-----------------------------------------------------------------------------
(* Colorbars: the plotter gives mappers a colorbar, remove_actor cleans up *)

\* _scalar_bar_mappers[title].append(mapper): the title has a colorbar already
ShareScalarBar(s, title, mapper) ==
    [s EXCEPT !.scalar_bars.mappers =
        [i \in 1..Len(@) |->
            IF @[i].name = title
            THEN [name |-> title, mappers |-> Append(@[i].mappers, mapper)]
            ELSE @[i]]]

\* a new colorbar takes the least free slot and enters the four tables
TrackScalarBar(s, title, mapper, slot, bar) ==
    [s EXCEPT !.scalar_bars.slots = @ \ {slot},
              !.scalar_bars.slot_lookup = @ \cup {[name |-> title, slot |-> slot]},
              !.scalar_bars.ranges = @ \cup {[name |-> title]},
              !.scalar_bars.mappers = Append(@, [name |-> title, mappers |-> <<mapper>>]),
              !.scalar_bars.actors = @ \cup {[name |-> title, actor |-> bar]},
              !.used = @ \cup {bar.id}]

\* the plotter's add_scalar_bar(title, mapper): a mapper joins the colorbar of
\* its title, or a new colorbar is made and added to the renderer with
\* add_actor(scalar_bar, reset_camera=False)
add_scalar_bar(s, title, mapper) ==
    IF \E e \in s.scalar_bars.ranges : e.name = title
    THEN Return(ShareScalarBar(s, title, mapper), "None")
    ELSE IF s.scalar_bars.slots = {} THEN Raise(s, "RuntimeError")
    ELSE add_actor(TrackScalarBar(s, title, mapper,
                                  CHOOSE n \in s.scalar_bars.slots :
                                      \A m \in s.scalar_bars.slots : n <= m,
                                  [kind |-> "bar", id |-> FreshId(s), bounds |-> <<>>]),
                   [kind |-> "bar", id |-> FreshId(s), bounds |-> <<>>],
                   "False", NoName, "False")

\* the mappers all colorbars track, counted with repetition
Tracked(b) ==
    LET RECURSIVE Sum(_)
        Sum(i) == IF i = 0 THEN 0 ELSE Len(b.mappers[i].mappers) + Sum(i - 1)
    IN  Sum(Len(b.mappers))

AddScalarBar ==
    \E title \in {"t1", "t2"}, actor \in UserActors :
        /\ Tracked(scalar_bars) < MaxTracked
        /\ Finish(add_scalar_bar(Start, title, GetMapper(actor)),
                  [Call("add_scalar_bar") EXCEPT !.text = title, !.actor = actor])

\* remove_actor(actor) by handle, for the caller's actors
RemoveUserActor ==
    \E actor \in UserActors :
        Finish(remove_actor(Start, ArgActor(actor), "False"),
               [Call("remove_actor") EXCEPT !.arg = ArgActor(actor)])

NextBars ==
    \/ Idle
    \/ CamAddActor
    \/ CamRemoveActor
    \/ RemoveUserActor
    \/ Clear
    \/ AddScalarBar

SpecBars == Init /\ [][NextBars]_vars

-----------------------------------------------------------------------------
(* The camera writes and the named views, over a scene of two named actors *)

\* view_xy ... view_zy, picked by the two letters of the method's name
PlanarView(s, view, negative) ==
    CASE view = "xy" -> view_xy(s, negative)
      [] view = "yx" -> view_yx(s, negative)
      [] view = "xz" -> view_xz(s, negative)
      [] view = "zx" -> view_zx(s, negative)
      [] view = "yz" -> view_yz(s, negative)
      [] view = "zy" -> view_zy(s, negative)

ViewPlanar ==
    \E view \in NamedViews, negative \in BOOLEAN :
        Finish(PlanarView(Start, view, negative),
               [Call("view_planar") EXCEPT !.text = view, !.negative = negative])

\* the vectors the caller hands to view_vector and assigns to camera_position
ViewVectors == {<<1, 0, 0>>, <<0, -1, 1>>}

ViewVector ==
    \E vector \in ViewVectors :
        Finish(view_vector(Start, vector, <<0, 0, 1>>),
               [Call("view_vector") EXCEPT !.point = VInt(vector)])

SetCameraPositionVector ==
    \E vector \in ViewVectors :
        Finish(set_camera_position_vector(Start, vector),
               [Call("camera_position=") EXCEPT !.point = VInt(vector)])

SetCameraPositionNone ==
    Finish(set_camera_position_none(Start),
           [Call("camera_position=") EXCEPT !.text = "None"])

\* camera_position = 'xy', 'ZY', ... and a string that names no view
SetCameraPositionName ==
    \E text \in {"xy", "xz", "yz", "yx", "zx", "ZY", "foo"} :
        Finish(set_camera_position_str(Start, text),
               [Call("camera_position=") EXCEPT !.text = text])

\* set_position(point, reset)
SetPosition ==
    \E point \in {VInt(<<0, 0, 3>>)}, reset \in BOOLEAN :
        Finish(set_position(Start, point, reset),
               [Call("set_position") EXCEPT !.point = point,
                                            !.reset = IF reset THEN "True" ELSE "False"])

\* camera = a new vtkCamera moved to a point of its own
SetCamera ==
    \E cam \in {[InitCamera EXCEPT !.pos = VInt(<<0, 2, 0>>), !.up = VInt(<<0, 0, 1>>)]} :
        Finish(set_camera(Start, cam), [Call("camera=") EXCEPT !.cam = cam])

\* reset_camera()
ResetCameraCall == Finish(Return(reset_camera(Start), "None"), Call("reset_camera"))

NextViews ==
    \/ Idle
    \/ CamAddActor
    \/ CamRemoveActor
    \/ Clear
    \/ SetXScale
    \/ ResetCameraCall
    \/ ViewIsometric
    \/ ViewPlanar
    \/ ViewVector
    \/ SetCameraPosition
    \/ SetCameraPositionName
    \/ SetCameraPositionVector
    \/ SetCameraPositionNone
    \/ SetPosition
    \/ SetCamera

SpecViews == Init /\ [][NextViews]_vars

-----------------------------------------------------------------------------
(* What the claims speak of *)

\* the call the last step made
Added == op.f = "add_actor"
Removed == op.f = "remove_actor"
Cleared == op.f = "clear"

\* the calls of the last step on the graphics subsystem and the plotter
Did(e, a) == \E i \in 1..Len(trace) : trace[i] = Event(e, a)
CameraFitted == Did("ResetCamera", NoneActor)
RedrawRequested == Did("render", NoneActor)

\* position, focal point and view-up are as they were before the call
CameraUnmoved ==
    /\ camera.pos = pre.camera.pos
    /\ camera.focal = pre.camera.focal
    /\ camera.up = pre.camera.up

\* the registered actors that are neither a cube-axes actor nor the
\* bounding-box decoration, and have a bounding box
Contributors ==
    {a \in Values(actors) : a.kind # "cube" /\ a # bounding_box_actor /\ a.bounds # <<>>}

\* the per-axis union of a non-empty set of boxes
UnionOf(boxes) ==
    [i \in 1..6 |->
        IF i % 2 = 1
        THEN CHOOSE x \in {b[i] : b \in boxes} : \A b \in boxes : x <= b[i]
        ELSE CHOOSE x \in {b[i] : b \in boxes} : \A b \in boxes : x >= b[i]]

UnitBox == <<-1, 1, -1, 1, -1, 1>>

-----------------------------------------------------------------------------
(* C1 *)

\* C1: after any sequence of add_actor and remove_actor calls (and the other
\* calls of the renderer), bounds is the per-axis union of the boxes of the
\* registered actors that are neither cube axes nor the bounding-box
\* decoration, and [-1,1,-1,1,-1,1] when no actor contributes.
C1_BoundsAreUnion ==
    bounds(Fields) = IF Contributors = {} THEN UnitBox
                     ELSE UnionOf({a.bounds : a \in Contributors})

\* A as "a" and B as "b" were registered, "a" has just been removed, and the
\* bounds are those of B
C1_Witness ==
    /\ Removed /\ op.arg = ArgName("a")
    /\ pre.actors = <<[name |-> "a", actor |-> ActorA], [name |-> "b", actor |-> ActorB]>>
    /\ actors = <<[name |-> "b", actor |-> ActorB]>>
    /\ bounds(Fields) = ActorB.bounds

-----------------------------------------------------------------------------
(* C2 *)

\* add_actor was called with a name the registry held
Replaced == Added /\ HasKey(pre.actors, op.name)
\* the actor the name held before the call
Previous == Lookup(pre.actors, op.name)

\* C2: for every reachable registry state and every name n in it,
\* add_actor(new_actor, name=n) leaves the number of registry entries
\* unchanged, the previous actor of n detached from the renderer with the
\* scalar-bar cleanup run for it, and new_actor registered under n.
C2_Original ==
    Replaced =>
        /\ Len(actors) = Len(pre.actors)
        /\ Previous \notin attached
        /\ Did("_remove_mapper_from_plotter", Previous)
        /\ HasKey(actors, op.name) /\ Lookup(actors, op.name) = op.actor

\* "a" was the only key, the renderer still tracked a bounding box that
\* remove_actor had taken out of the registry, and add_actor(B, name="a")
\* replaced A: the previous actor is detached and cleaned up and B is under
\* "a", but update_bounds_axes has registered a new bounding box, so the
\* registry has grown from one entry to two
C2_Witness ==
    /\ Replaced /\ op.name = "a" /\ op.actor = ActorB /\ Previous = ActorA
    /\ err = ""
    /\ Keys(pre.actors) = <<"a">>
    /\ pre.bounding_box_actor # NoneActor
    /\ pre.bounding_box_actor \notin Values(pre.actors)
    /\ ActorA \notin attached
    /\ Did("_remove_mapper_from_plotter", ActorA)
    /\ Lookup(actors, "a") = ActorB
    /\ Len(actors) = 2
    /\ bounding_box_actor \in Values(actors)

-----------------------------------------------------------------------------
(* C3 *)

\* remove_actor was called with a name the registry did not hold
RemovedAbsentName == Removed /\ op.arg.t = "str" /\ ~HasKey(pre.actors, op.arg.name)

\* C3 as stated: remove_actor with a name that is not a key returns False and
\* leaves the registry as it was.
C3_Original == RemovedAbsentName => (ret = "False" /\ actors = pre.actors)

\* C3 as amended: remove_actor with a name that is not a key, when no key
\* starts with the name followed by "-", returns False and leaves the registry
\* (keys and actors) as it was.
C3_AbsentNameIsNoOp ==
    (RemovedAbsentName /\ PrefixedKeys(pre.actors, op.arg.name) = <<>>) =>
        (ret = "False" /\ err = "" /\ actors = pre.actors)

\* "b" was removed from a registry that holds only "a"
C3_Witness ==
    /\ RemovedAbsentName /\ op.arg.name = "b"
    /\ pre.actors = <<[name |-> "a", actor |-> ActorA]>>
    /\ ret = "False"

-----------------------------------------------------------------------------
(* C4 *)

\* C4: add_actor with a culling value outside the accepted set fails, and the
\* registry and the attached props are as before the call.
C4_BadCullingAddsNothing ==
    (Added /\ op.culling \notin CullingBack \cup CullingFront \cup {"False"}) =>
        /\ err = "RuntimeError"
        /\ actors = pre.actors
        /\ op.actor \in attached <=> op.actor \in pre.attached

-----------------------------------------------------------------------------
(* C5 *)

\* C5: with camera_set True, an add_actor that does not ask for a reset
\* (reset_camera False or None) never invokes ResetCamera: position, focal
\* point and view-up are unchanged and a redraw is requested, whatever
\* decorations exist.
C5_SetCameraIsKept ==
    (Added /\ pre.camera_set /\ op.reset \in {"False", "None"}) =>
        (~CameraFitted /\ CameraUnmoved /\ RedrawRequested /\ camera_set)

\* the camera was set, a bounding box and cube axes existed, and the actor
\* added with reset_camera=None changed the bounds so that the box was rebuilt
C5_Witness ==
    /\ Added /\ pre.camera_set /\ op.reset = "None"
    /\ pre.bounding_box_actor # NoneActor
    /\ bounding_box_actor # pre.bounding_box_actor
    /\ pre.cube_axes_actor # NoneActor
    /\ bounds(Fields) # bounds(pre)

-----------------------------------------------------------------------------
(* C6 *)

\* C6: view_isometric ends with camera_set False, and the focal point it
\* assigns to camera_position is the centre of the bounds, or the origin when
\* a coordinate of the centre is NaN.
C6_IsometricUnsets ==
    op.f = "view_isometric" =>
        /\ camera_set = FALSE
        /\ written[2] = IF \E i \in 1..3 : IsNaN(center(pre)[i]) THEN VInt(<<0, 0, 0>>)
                        ELSE center(pre)
        /\ CameraFitted

\* view_isometric was called with the camera set, x scaled by 2 and one actor
C6_Witness ==
    /\ op.f = "view_isometric" /\ pre.camera_set /\ ~camera_set
    /\ scale = <<2, 1, 1>>
    /\ Values(actors) = {ActorB}
    /\ written[2] = <<<<3, 2>>, <<3, 2>>, <<3, 2>>>>

-----------------------------------------------------------------------------
(* C7 *)

\* C7 as stated: with camera_set False every add_actor and every successful
\* remove_actor invokes the camera fit, with the default reset_camera (False)
\* as with None, and also when the add replaces a name.
C7_Original ==
    (~pre.camera_set /\ op.reset \in {"False", "None"}
        /\ (Added \/ (Removed /\ ret = "True"))) => CameraFitted

\* C7 as amended: with camera_set False, every add_actor called with
\* reset_camera=None under a name the registry does not hold, and every
\* successful remove_actor called with reset_camera=None, invokes the camera
\* fit and leaves camera_set False.
C7_AutoFitWhenUnset ==
    (~pre.camera_set /\ op.reset = "None"
        /\ ((Added /\ ~HasKey(pre.actors, op.name)) \/ (Removed /\ ret = "True")))
        => (CameraFitted /\ ~camera_set)

\* an actor was added under a new name with reset_camera=None while the
\* camera was not set, and the fit moved the camera
C7_Witness ==
    /\ Added /\ ~pre.camera_set /\ op.reset = "None" /\ ~HasKey(pre.actors, op.name)
    /\ Len(pre.actors) > 0
    /\ CameraFitted /\ ~CameraUnmoved

-----------------------------------------------------------------------------
(* C8 *)

\* remove_actor was called with an actor that no key of the registry held
RemovedUnregistered ==
    Removed /\ op.arg.t = "actor" /\ op.arg.actor \notin Values(pre.actors)

\* C8: remove_actor with an actor that is not registered returns False, raises
\* nothing and changes nothing: no registry change, no scalar-bar cleanup and
\* no detach for that actor.
C8_UnregisteredIsNoOp ==
    RemovedUnregistered =>
        /\ ret = "False" /\ err = ""
        /\ actors = pre.actors
        /\ ~Did("_remove_mapper_from_plotter", op.arg.actor)
        /\ ~Did("RemoveActor", op.arg.actor)

-----------------------------------------------------------------------------
(* C9 *)

\* C9: after clear() the registry holds no entry and no prop is attached,
\* also when a bounding box or cube axes were present.
C9_ClearEmpties == Cleared => (actors = <<>> /\ attached = {})

-----------------------------------------------------------------------------
(* C10 *)

\* the caller suppressed the camera reset
Suppressed == Cleared \/ ((Added \/ Removed) /\ op.reset = "False")

\* C10: a call that suppressed the reset (add_actor or remove_actor with
\* reset_camera=False, clear) never invokes ResetCamera and leaves position,
\* focal point and view-up unchanged, whatever decorations exist and whether
\* or not camera_set is True.
C10_SuppressedNeverFits == Suppressed => (~CameraFitted /\ CameraUnmoved)

-----------------------------------------------------------------------------
(* C11 *)

\* the matrix set_scale installs on the camera can be inverted
NonSingular(m) == \A i \in 1..3 : m[i] # R(0)

\* C11: after any sequence of set_scale calls, zero and negative arguments
\* included, every component of scale is strictly positive and the model
\* matrix of the camera is not singular.
C11_ScaleStaysPositive ==
    /\ \A i \in 1..3 : scale[i] > 0
    /\ NonSingular(camera.mtx)

-----------------------------------------------------------------------------
(* C12 *)

\* C12: with a scale whose components are all non-zero (set_scale(2,1,1) is
\* one), scale_point with invert=True applied to the result of scale_point
\* with invert=False gives the point back.
C12_RoundTrip ==
    (op.f = "scale_point" /\ ~op.invert /\ NonSingular(camera.mtx)) =>
        scale_point(camera, ret, TRUE) = op.point

\* after set_scale(2,1,1) a point with x = 2 was scaled to x = 4, and the
\* inverse gives it back
C12_Witness ==
    /\ op.f = "scale_point" /\ ~op.invert
    /\ scale = <<2, 1, 1>>
    /\ op.point = VInt(<<2, 3, 1>>)
    /\ ret = VInt(<<4, 3, 1>>)
    /\ scale_point(camera, ret, TRUE) = op.point

-----------------------------------------------------------------------------
(* C13 *)

\* add_actor was called while a bounding box existed, and the aggregate
\* bounds after the call are not those before it
GrewWithBox ==
    /\ Added
    /\ pre.box_object # NoObject /\ pre.bounding_box_actor # NoneActor
    /\ bounds(Fields) # bounds(pre)

\* C13: with a bounding box present, an add_actor that changes the aggregate
\* bounds rebuilds the box: its cached bounds are the new aggregate bounds,
\* bounding_box_actor is another actor than before, the old one is no
\* longer registered, and the new box has the old box's colour.
C13_BoxIsRebuilt ==
    GrewWithBox =>
        /\ box_object # NoObject /\ box_object.bounds = bounds(Fields)
        /\ bounding_box_actor # NoneActor
        /\ bounding_box_actor # pre.bounding_box_actor
        /\ bounding_box_actor.bounds = bounds(Fields)
        /\ pre.bounding_box_actor \notin Values(actors)
        /\ pre.bounding_box_actor \notin attached
        /\ bounding_box_actor \in Values(actors)
        /\ box_color = pre.box_color

\* B was added as "b" to a scene of A with the box show_bounds(all_edges=True)
\* made: the box now spans [0,2] on every axis and keeps the font colour
C13_Witness ==
    /\ GrewWithBox /\ op.actor = ActorB /\ op.name = "b"
    /\ pre.bounding_box_actor \in Values(pre.actors)
    /\ pre.box_color = FontColor /\ box_color = FontColor
    /\ pre.box_object.bounds = ActorA.bounds
    /\ box_object.bounds = <<0, 2, 0, 2, 0, 2>>
    /\ bounding_box_actor # pre.bounding_box_actor

-----------------------------------------------------------------------------
(* C14 *)

\* C14: in every reachable state, calls that failed included, the registry
\* holds at most one bounding-box actor and at most one cube-axes actor.
C14_AtMostOneEach == BoxEntries(actors) <= 1 /\ CubeEntries(actors) <= 1

-----------------------------------------------------------------------------
(* C17 *)

\* show_bounds was called with an argument its validation rejects
BadShowBounds ==
    /\ op.f = "show_bounds"
    /\ (~TicksOk(op.ticks) \/ ~LocationOk(op.location) \/ ~(0 <= op.padding /\ op.padding < 1))

\* C17: a show_bounds that fails validation raises and leaves the registry,
\* the attached props and the cube-axes decoration as they were.
C17_FailedShowBoundsChangesNothing ==
    BadShowBounds =>
        /\ err = "ValueError"
        /\ actors = pre.actors
        /\ attached = pre.attached
        /\ cube_axes_actor = pre.cube_axes_actor

-----------------------------------------------------------------------------
(* C18 *)

\* C18: deep_clean completes without error from every reachable state, a
\* renderer that was already cleaned included, and afterwards parent is
\* None, the registry reference is released and no decoration state
\* (cube_axes_actor, _box_object, bounding_box_actor, edl_pass) remains.
C18_DeepCleanReleases ==
    op.f = "deep_clean" =>
        /\ err = "" /\ ret = "None"
        /\ parent = NoParent
        /\ released /\ actors = <<>>
        /\ attached = {}
        /\ cube_axes_actor = NoneActor
        /\ box_object = NoObject
        /\ bounding_box_actor = NoneActor
        /\ ~edl_pass

\* deep_clean was called on a renderer with an actor, a registered bounding
\* box, cube axes and an EDL pass
C18_Witness ==
    /\ op.f = "deep_clean" /\ err = ""
    /\ ~pre.released
    /\ pre.edl_pass
    /\ pre.cube_axes_actor \in Values(pre.actors)
    /\ pre.bounding_box_actor \in Values(pre.actors)
    /\ ActorA \in Values(pre.actors)
    /\ Did("RemoveActor", pre.bounding_box_actor)
    /\ released /\ parent = NoParent

-----------------------------------------------------------------------------
(* C15 *)

\* C15: reading camera coordinates through the inverse transform
\* (scale_point with invert=True, the camera_position getter) raises when
\* the model-transform matrix of the camera is singular.
C15_SingularInverseFails ==
    ( /\ op.f = "camera_position" \/ (op.f = "scale_point" /\ op.invert)
      /\ ~NonSingular(camera.mtx) )
    => err # ""

-----------------------------------------------------------------------------
(* C16 *)

\* C16: assigning camera_position a string that is none of the six named
\* views raises, and position, focal point, view-up and camera_set stay as
\* they were.
C16_UnknownViewFails ==
    (op.f = "camera_position=" /\ op.cpos = <<>> /\ Lower(op.text) \notin NamedViews)
    => (err # "" /\ CameraUnmoved /\ camera_set = pre.camera_set)

-----------------------------------------------------------------------------
(* C19 *)

\* set_scale(..., reset_camera=False) was called between two non-singular
\* scales
Rescaled ==
    /\ op.f = "set_scale" /\ op.reset = "False"
    /\ NonSingular(pre.camera.mtx) /\ NonSingular(camera.mtx)

\* C19: with a non-singular scale, reading camera_position right after
\* assigning the triple [p, f, v] returns [p, f, v]; a later
\* set_scale(reset_camera=False) leaves the stored camera coordinates alone,
\* so the position and focal point read afterwards, scaled by the new scale,
\* are those read before, scaled by the old one (view-up is unchanged).
C19_ReadsWhatWasWritten ==
    /\ (op.f = "camera_position=" /\ op.cpos # <<>> /\ NonSingular(camera.mtx))
           => camera_position(Fields) = op.cpos
    /\ Rescaled =>
           /\ \A k \in 1..2 :
                  scale_point(camera, camera_position(Fields)[k], FALSE)
                      = scale_point(pre.camera, camera_position(pre)[k], FALSE)
           /\ camera_position(Fields)[3] = camera_position(pre)[3]

\* the camera read as a written triple under scale (1,1,1), the scale became
\* (2,1,1) without a camera reset, and the x coordinate read is now half of
\* the one written
C19_Witness ==
    /\ Rescaled
    /\ pre.scale = <<1, 1, 1>> /\ scale = <<2, 1, 1>>
    /\ camera_position(pre) \in WrittenTriples
    /\ camera_position(pre)[1][1] = R(2)
    /\ camera_position(Fields)[1][1] = R(1)

\* C19 as stated: the triple read after the write is the triple written, and
\* it is still that triple after a later set_scale(reset_camera=False).
C19_Original ==
    /\ (op.f = "camera_position=" /\ op.cpos # <<>> /\ NonSingular(camera.mtx))
           => camera_position(Fields) = op.cpos
    /\ (Rescaled /\ camera_position(pre) \in WrittenTriples)
           => camera_position(Fields) = camera_position(pre)

-----------------------------------------------------------------------------
(* C20 *)

\* the call that gave r changed nothing: the registry, the attached props,
\* the decorations and the camera are the current ones, and neither the
\* graphics subsystem nor the plotter's scalar-bar bookkeeping was called
NothingDone(r) ==
    /\ r.err = "" /\ r.trace = <<>>
    /\ r.actors = actors /\ r.attached = attached
    /\ r.bounding_box_actor = bounding_box_actor /\ r.box_object = box_object
    /\ r.box_color = box_color
    /\ r.cube_axes_actor = cube_axes_actor /\ r.cube_state = cube_state
    /\ r.camera = camera /\ r.camera_set = camera_set /\ r.scale = scale

\* remove_actor was called with a name the registry held
RemovedRegisteredName == Removed /\ op.arg.t = "str" /\ HasKey(pre.actors, op.arg.name)

\* C20: remove_actor(name) for a registered name returns True, and a second
\* remove_actor(name) right after it returns False and changes neither the
\* registry nor the decorations nor the scalar-bar bookkeeping.
C20_SecondRemoveIsNoOp ==
    RemovedRegisteredName =>
        /\ ret = "True"
        /\ \A reset \in ResetFlags :
               /\ remove_actor(Start, op.arg, reset).ret = "False"
               /\ NothingDone(remove_actor(Start, op.arg, reset))

\* "a" was removed while a bounding box followed the scene, and is gone
C20_Witness ==
    /\ RemovedRegisteredName /\ op.arg.name = "a"
    /\ ret = "True"
    /\ pre.bounding_box_actor # NoneActor
    /\ ~HasKey(actors, "a")
    /\ remove_actor(Start, op.arg, "None").ret = "False"

-----------------------------------------------------------------------------
(* C21 *)

\* C21: in every state between calls in which a bounding-box decoration
\* exists, the bounds it was built for are the current aggregate bounds.
C21_BoxFollowsBounds ==
    (box_object # NoObject /\ bounding_box_actor # NoneActor) =>
        box_object.bounds = bounds(Fields)

-----------------------------------------------------------------------------
(* C22 *)

\* the cube axes the renderer tracks have the current aggregate bounds, and
\* their 2D mode is on exactly when the scale is not (1, 1, 1)
CubeInStep ==
    /\ cube_axes_actor.id \in DOMAIN cube_state
    /\ cube_state[cube_axes_actor.id].bounds = bounds(Fields)
    /\ cube_state[cube_axes_actor.id].use2d = (scale # <<1, 1, 1>>)

\* C22 as stated: with cube axes present, after every set_scale, add_actor
\* and remove_actor the cube axes have the aggregate bounds and the 2D mode
\* that goes with the scale.
C22_Original ==
    (cube_axes_actor # NoneActor /\ op.f \in {"set_scale", "add_actor", "remove_actor"})
        => CubeInStep

\* remove_actor removed something: it returned True, or it was given a name
\* and removed the keys that start with the name followed by "-"
RemovedSomething ==
    /\ op.f = "remove_actor"
    /\ \/ ret = "True"
       \/ op.arg.t = "str" /\ PrefixedKeys(pre.actors, op.arg.name) # <<>>

\* C22 as amended: with cube axes present, after set_scale with
\* reset_camera=True, after add_actor and after a remove_actor that removes
\* something (it returns True, or it removes the keys that start with the
\* given name followed by "-") the cube axes have the aggregate bounds and the
\* 2D mode that goes with the scale.
C22_CubeFollowsScale ==
    ( /\ cube_axes_actor # NoneActor
      /\ \/ op.f = "set_scale" /\ op.reset = "True"
         \/ op.f = "add_actor"
         \/ RemovedSomething )
    => CubeInStep

\* with the scale at (2, 1, 1) and the cube axes in 2D mode, remove_actor('a')
\* found only 'a-0', removed it, returned False, and the cube axes went from
\* the bounds of the removed actor to those of the empty scene
C22_Witness ==
    /\ op.f = "remove_actor" /\ op.arg = ArgName("a") /\ ret = "False"
    /\ Keys(pre.actors) = <<"a-0", HexId(cube_axes_actor)>>
    /\ cube_axes_actor # NoneActor /\ cube_axes_actor = pre.cube_axes_actor
    /\ scale = <<2, 1, 1>>
    /\ pre.cube_state[cube_axes_actor.id] = [bounds |-> ActorB.bounds, use2d |-> TRUE]
    /\ cube_state[cube_axes_actor.id] = [bounds |-> UnitBox, use2d |-> TRUE]

-----------------------------------------------------------------------------
(* C23 *)

\* the call of the last step wrote the camera explicitly: camera_position was
\* assigned a triple, a vector or the name of a view, or view_vector, one of
\* view_xy ... view_zy, set_position or the setter of camera was called
ExplicitWrite ==
    \/ /\ op.f = "camera_position="
       /\ op.cpos # <<>> \/ op.point # <<>> \/ Lower(op.text) \in NamedViews
    \/ op.f \in {"view_vector", "view_planar", "set_position", "camera="}

\* C23: camera_set is True after every explicit camera write; it goes from
\* True to False only in view_isometric; camera_position = None changes
\* nothing; add_actor, remove_actor, clear, set_scale and reset_camera leave
\* camera_set as it was.
C23_CameraSetTransitions ==
    /\ ExplicitWrite => camera_set
    /\ (pre.camera_set /\ ~camera_set) => op.f = "view_isometric"
    /\ (op.f = "camera_position=" /\ op.text = "None") =>
           (Fields = pre /\ trace = <<>> /\ err = "")
    /\ op.f \in {"add_actor", "remove_actor", "clear", "set_scale", "reset_camera"} =>
           camera_set = pre.camera_set

\* set_position was called on a scene with an actor while no camera position
\* had been chosen, and camera_set is now True
C23_Witness ==
    /\ op.f = "set_position" /\ op.reset = "True"
    /\ Len(actors) > 0
    /\ ~pre.camera_set /\ camera_set

-----------------------------------------------------------------------------
(* C24 *)

\* the place in the trace of the first camera fit of the call
FirstFit ==
    CHOOSE i \in 1..Len(trace) :
        /\ trace[i] = Event("ResetCamera", NoneActor)
        /\ \A j \in 1..(i - 1) : trace[j] # Event("ResetCamera", NoneActor)

\* remove_actor was called for one actor: by handle, or by a name that is the
\* prefix of no other key
RemovedSingle ==
    /\ Removed
    /\ \/ op.arg.t = "actor"
       \/ op.arg.t = "str" /\ PrefixedKeys(pre.actors, op.arg.name) = <<>>

\* add_actor or the removal of one actor changed the aggregate bounds away from
\* those the registered bounding box was built for, and fitted the camera
FittedWithBox ==
    /\ (Added \/ RemovedSingle) /\ err = ""
    /\ pre.box_object # NoObject
    /\ pre.bounding_box_actor \in Values(pre.actors)
    /\ pre.box_object.bounds # bounds(Fields)
    /\ CameraFitted

\* C24: in add_actor and remove_actor the decorations are brought up to date
\* after the registry has changed and before the camera is fitted: when the
\* call changes the aggregate bounds, the bounding box built for the old
\* bounds has been taken away before the first camera fit is requested.
C24_FitAfterDecorations ==
    FittedWithBox =>
        \E j \in 1..(FirstFit - 1) : trace[j] = Event("RemoveActor", pre.bounding_box_actor)

-----------------------------------------------------------------------------
(* C25 *)

\* the plotter was told about some actor during the call
Notified == \E i \in 1..Len(trace) : trace[i].e = "_remove_mapper_from_plotter"

\* every detach of the call comes right after the plotter was told about that
\* actor and right before the pop of the registry
DetachInOrder ==
    \A j \in 1..Len(trace) :
        trace[j].e = "RemoveActor" =>
            /\ j > 1 /\ trace[j - 1] = Event("_remove_mapper_from_plotter", trace[j].a)
            /\ j < Len(trace) /\ trace[j + 1] = Event("_actors.pop", trace[j].a)

\* C25 as stated: in a successful removal the plotter is told about the actor
\* before the actor is detached and before its entry is popped, and a
\* remove_actor that returns False tells the plotter nothing.
C25_Original ==
    /\ (Removed /\ err = "" /\ ret = "True") =>
           (DetachInOrder /\ \E j \in 1..Len(trace) : trace[j].e = "RemoveActor")
    /\ (Removed /\ ret = "False") => ~Notified

\* C25 as amended: the same, where a remove_actor that returns False tells the
\* plotter nothing when it was given None or a name that is the prefix
\* (before "-") of no key.
C25_NotifiedBeforeDetach ==
    /\ (Removed /\ err = "" /\ ret = "True") =>
           (DetachInOrder /\ \E j \in 1..Len(trace) : trace[j].e = "RemoveActor")
    /\ ( /\ Removed /\ ret = "False"
         /\ \/ op.arg.t = "none"
            \/ op.arg.t = "str" /\ PrefixedKeys(pre.actors, op.arg.name) = <<>> )
       => ~Notified

\* "a" was removed: the plotter was told about its actor, then the actor was
\* detached, then the entry was popped
C25_Witness ==
    /\ RemovedRegisteredName /\ op.arg.name = "a" /\ ret = "True"
    /\ Len(trace) >= 3
    /\ trace[1] = Event("_remove_mapper_from_plotter", Lookup(pre.actors, "a"))
    /\ trace[2] = Event("RemoveActor", Lookup(pre.actors, "a"))
    /\ trace[3] = Event("_actors.pop", Lookup(pre.actors, "a"))

-----------------------------------------------------------------------------
(* The colorbar cleanup of remove_actor *)

\* the titles of the colorbars in the plotter's tables b
BarNames(b) == {b.mappers[i].name : i \in 1..Len(b.mappers)}
\* the list of mappers the colorbar title tracks in b
BarMappers(b, title) ==
    b.mappers[CHOOSE i \in 1..Len(b.mappers) : b.mappers[i].name = title].mappers
\* the display slot of the colorbar title in b
BarSlot(b, title) == (CHOOSE e \in b.slot_lookup : e.name = title).slot
\* the colorbars the last call dropped
DroppedBars == BarNames(pre.scalar_bars) \ BarNames(scalar_bars)
\* the last call removed one actor: by handle, or by a name no key extends
RemovedOneActor ==
    /\ op.f = "remove_actor"
    /\ \/ op.arg.t = "actor"
       \/ op.arg.t = "str" /\ HasKey(pre.actors, op.arg.name)
                           /\ Len(PrefixedKeys(pre.actors, op.arg.name)) = 0
\* the actor that call removed
RemovedActor ==
    IF op.arg.t = "actor" THEN op.arg.actor ELSE Lookup(pre.actors, op.arg.name)

\* C26: the colorbar cleanup of an actor's removal drops a colorbar only if the
\* colorbar tracked the removed actor's mapper and tracks no other mapper once
\* that one is taken off; a dropped colorbar leaves the mapper, range, actor and
\* slot-lookup tables together and its slot is free again; a colorbar that is
\* kept keeps its slot; the free slots and the slots of the lookup table are
\* disjoint and together are all MAX_N_COLOR_BARS slots
C26_ColorbarCleanup ==
    /\ (RemovedOneActor =>
            \A title \in DroppedBars :
                BarMappers(pre.scalar_bars, title) = <<GetMapper(RemovedActor)>>)
    /\ BarNames(scalar_bars) = {e.name : e \in scalar_bars.ranges}
    /\ BarNames(scalar_bars) = {e.name : e \in scalar_bars.actors}
    /\ BarNames(scalar_bars) = {e.name : e \in scalar_bars.slot_lookup}
    /\ \A title \in DroppedBars : BarSlot(pre.scalar_bars, title) \in scalar_bars.slots
    /\ \A title \in BarNames(pre.scalar_bars) \cap BarNames(scalar_bars) :
            BarSlot(scalar_bars, title) = BarSlot(pre.scalar_bars, title)
    /\ scalar_bars.slots \cap {e.slot : e \in scalar_bars.slot_lookup} = {}
    /\ scalar_bars.slots \cup {e.slot : e \in scalar_bars.slot_lookup}
            = 0..(MAX_N_COLOR_BARS - 1)

\* removing actor A drops the colorbar that tracked only A's mapper and keeps
\* the one that also tracks B's
C26_Witness ==
    /\ RemovedOneActor /\ err = "" /\ RemovedActor = ActorA
    /\ BarNames(pre.scalar_bars) = {"t1", "t2"}
    /\ BarMappers(pre.scalar_bars, "t1") = <<1>>
    /\ BarMappers(pre.scalar_bars, "t2") = <<1, 2>>
    /\ BarNames(scalar_bars) = {"t2"}
    /\ BarMappers(scalar_bars, "t2") = <<2>>
    /\ BarSlot(pre.scalar_bars, "t1") \in scalar_bars.slots

-----------------------------------------------------------------------------
(* The planar views *)

\* the renderer the last call started from
Before == pre @@ [ret |-> "", err |-> "", trace |-> <<>>, written |-> <<>>]

\* the view vector and the view-up of each planar view
ViewTable ==
    [xy |-> <<<<0, 0, 1>>, <<0, 1, 0>>>>, yx |-> <<<<0, 0, -1>>, <<1, 0, 0>>>>,
     xz |-> <<<<0, -1, 0>>, <<0, 0, 1>>>>, zx |-> <<<<0, 1, 0>>, <<1, 0, 0>>>>,
     yz |-> <<<<1, 0, 0>>, <<0, 0, 1>>>>, zy |-> <<<<-1, 0, 0>>, <<0, 1, 0>>>>]

\* what the view named view writes: the position, the focal point, the view-up
TableTriple(view, negative) ==
    <<IF negative THEN VSub(center(Before), VInt(ViewTable[view][1]))
                  ELSE VAdd(center(Before), VInt(ViewTable[view][1])),
      center(Before), VInt(ViewTable[view][2])>>

\* C27: each planar view writes the focal point at the centre of the scene, the
\* position at the centre plus the view vector of the table (minus it when
\* negative is true) and the view-up of the table; assigning the name of the
\* view to camera_position does what the view method does with negative=False
C27_PlanarViews ==
    /\ (op.f = "view_planar" => written = TableTriple(op.text, op.negative))
    /\ (op.f = "camera_position=" /\ Lower(op.text) \in DOMAIN ViewTable =>
            /\ written = TableTriple(Lower(op.text), FALSE)
            /\ camera = PlanarView(Before, Lower(op.text), FALSE).camera
            /\ camera_set = PlanarView(Before, Lower(op.text), FALSE).camera_set
            /\ trace = PlanarView(Before, Lower(op.text), FALSE).trace
            /\ ret = PlanarView(Before, Lower(op.text), FALSE).ret)

\* view_zy(negative=True) on a scene whose centre is not the origin
C27_Witness ==
    /\ op.f = "view_planar" /\ op.text = "zy" /\ op.negative
    /\ center(Before) # VInt(<<0, 0, 0>>)
    /\ written = <<VAdd(center(Before), VInt(<<1, 0, 0>>)), center(Before),
                   VInt(<<0, 1, 0>>)>>

-----------------------------------------------------------------------------
(* The registry and the props attached to the renderer *)

\* C28: every actor stored in the registry is attached to the renderer, and no
\* actor is stored under two names
C28_RegistryMatchesAttached ==
    /\ Values(actors) \subseteq attached
    /\ \A i, j \in 1..Len(actors) : actors[i].actor = actors[j].actor => i = j

-----------------------------------------------------------------------------
(* The decorations the renderer tracks *)

\* C29: a bounding box or a cube-axes actor the renderer tracks is a value of
\* the registry
C29_TrackedDecorationsRegistered ==
    /\ (bounding_box_actor # NoneActor => bounding_box_actor \in Values(actors))
    /\ (cube_axes_actor # NoneActor => cube_axes_actor \in Values(actors))

====
